---- MODULE Spec2Model ----
(***************************************************************************)
(* Model of thor/utils/ades.py: the ADES PSV header builder                *)
(* (writeADESHeader) and the table exporter (writeToADES).                 *)
(*                                                                         *)
(* A Python str is modelled as a sequence of tokens (pieces of text); the  *)
(* text of the str is the concatenation of its tokens.  A header is a list *)
(* of such strs, a file is a list of lines.                                *)
(***************************************************************************)
EXTENDS Integers, Sequences, FiniteSets, TLC

VARIABLES hargs, hret, targs, tret, files

vars == <<hargs, hret, targs, tret, files>>

(***************************************************************************)
(* Bounds of the model.                                                    *)
(***************************************************************************)
MaxNames == 2
MaxRows == 2

(***************************************************************************)
(* Python values.  Every value is a record of the same shape so that any   *)
(* two values can be compared: t is the Python type, s the text of a str   *)
(* (or the decimal text of an int), items the entries of a list or tuple.  *)
(***************************************************************************)
PyNone == [t |-> "NoneType", s |-> "", items |-> <<>>]
PyStr(s) == [t |-> "str", s |-> s, items |-> <<>>]
PyInt(s) == [t |-> "int", s |-> s, items |-> <<>>]
PyList(xs) == [t |-> "list", s |-> "", items |-> xs]
PyTuple(xs) == [t |-> "tuple", s |-> "", items |-> xs]

\* "{}".format(x) for a scalar x: the text of a str, the digits of an int,
\* the word None for None.
Format(x) == IF x.t = "NoneType" THEN "None" ELSE x.s

\* "<prefix>{}".format(x)
FormatLine(prefix, x) == <<prefix, Format(x)>>

\* header += [...] for each name of a list, in list order
RECURSIVE NameLines(_)
NameLines(xs) ==
    IF xs = <<>> THEN <<>>
    ELSE <<FormatLine("! name ", Head(xs))>> \o NameLines(Tail(xs))

\* type(x) is not list
MutIsNotListAcceptsTuple(x) == x.t \notin {"list", "tuple"}
IsNotList(x) == x.t # "list"

\* header = [i + "\n" for i in header]
RECURSIVE AddNewlines(_)
AddNewlines(header) ==
    IF header = <<>> THEN <<>>
    ELSE <<Head(header) \o <<"\n">>>> \o AddNewlines(Tail(header))

\* The lines of the observatory section.
MutObservatorySectionNoName(a) ==
    <<<<"# observatory">>, FormatLine("! mpcCode ", a.observatory_code)>>
ObservatorySection(a) ==
    <<<<"# observatory">>, FormatLine("! mpcCode ", a.observatory_code)>>
    \o (IF a.observatory_name # PyNone
        THEN <<FormatLine("! name ", a.observatory_name)>> ELSE <<>>)

\* The lines of the submitter section.
SubmitterSection(a) ==
    <<<<"# submitter">>, FormatLine("! name ", a.submitter)>>
    \o (IF a.submitter_institution # PyNone
        THEN <<FormatLine("! institution ", a.submitter_institution)>> ELSE <<>>)

\* The lines of the telescope section.  The aperture and detector lines are
\* literals in the source: neither reads its argument.  (The literal
\* "! aperture 8.4" is written as the two tokens "! aperture " and "8.4".)
TelescopeSection(a) ==
    <<<<"# telescope">>>>
    \o (IF a.telescope_name # PyNone
        THEN <<FormatLine("! name ", a.telescope_name)>> ELSE <<>>)
    \o <<<<"! aperture ", "8.4">>>>
    \o <<FormatLine("! design ", a.telescope_design)>>
    \o <<FormatLine("! detector ", PyStr("CCD"))>>

\* The lines of the comment section.
MutCommentSectionAlways(a) ==
    <<<<"# comment">>, FormatLine("! line ", a.comment)>>
CommentSection(a) ==
    IF a.comment # PyNone
    THEN <<<<"# comment">>, FormatLine("! line ", a.comment)>>
    ELSE <<>>

Ok(v) == [status |-> "ok", msg |-> "", value |-> v]
Raise(kind, msg) == [status |-> kind, msg |-> msg, value |-> <<>>]
NotCalled == [status |-> "none", msg |-> "", value |-> <<>>]

\* writeADESHeader: the list of header lines, or the ValueError it raises.
writeADESHeader(a) ==
    LET h1 == <<<<"# version=2017">>>>
              \o ObservatorySection(a)
              \o SubmitterSection(a)
              \o TelescopeSection(a)
              \o <<<<"# observers">>>>
    IN  IF IsNotList(a.observers)
        THEN Raise("ValueError", "observers should be a list of strings.")
        ELSE LET h2 == h1 \o NameLines(a.observers.items) \o <<<<"# measurers">>>>
             IN  IF IsNotList(a.measurers)
                 THEN Raise("ValueError", "measurers should be a list of strings.")
                 ELSE Ok(AddNewlines(h2 \o NameLines(a.measurers.items)
                                     \o CommentSection(a)))

(***************************************************************************)
(* The observation table.  A table is its column names, in the order the   *)
(* caller's table has them, and its rows; a row maps each column name to a *)
(* cell.  A cell is a str, a float (f counts eighths, so that every value  *)
(* is exact in binary floating point), NaN or None.                        *)
(***************************************************************************)
CellStr(s) == [t |-> "str", s |-> s, f |-> 0]
CellFloat(f) == [t |-> "float", s |-> "", f |-> f]
CellNaN == [t |-> "nan", s |-> "", f |-> 0]
CellNone == [t |-> "None", s |-> "", f |-> 0]

\* "<name>" in observations.columns.values
HasColumn(obs, c) == \E i \in DOMAIN obs.columns : obs.columns[i] = c

\* observations["<name>"].values
ColumnValues(obs, c) == [i \in DOMAIN obs.rows |-> obs.rows[i][c]]

(***************************************************************************)
(* Text of numbers.                                                        *)
(***************************************************************************)
Digit(n) == <<"0", "1", "2", "3", "4", "5", "6", "7", "8", "9">>[n + 1]

\* The decimal digits of n >= 0.
RECURSIVE Digits(_)
Digits(n) == IF n < 10 THEN Digit(n) ELSE Digits(n \div 10) \o Digit(n % 10)

\* n >= 0 in at least w digits, zero padded.
RECURSIVE Padded(_, _)
Padded(n, w) ==
    IF w <= 1 THEN Digits(n) ELSE
    IF n < 10 THEN "0" \o Padded(n, w - 1)
    ELSE Padded(n \div 10, w - 1) \o Digit(n % 10)

RECURSIVE Zeros(_)
Zeros(k) == IF k <= 0 THEN "" ELSE "0" \o Zeros(k - 1)

Abs(x) == IF x < 0 THEN -x ELSE x
Sign(x) == IF x < 0 THEN "-" ELSE ""

\* '%.16f' % x for the float x = f/8: three digits hold the fraction exactly.
FixedFormat(f) ==
    Sign(f) \o Digits(Abs(f) \div 8) \o "." \o Padded((Abs(f) % 8) * 125, 3)
    \o Zeros(13)

\* str(x) for the float x = f/8: the shortest text that reads back as x.
FloatStr(f) ==
    LET e == Abs(f) % 8
        frac == IF e = 0 THEN "0"
                ELSE IF e = 4 THEN "5"
                ELSE IF e % 2 = 0 THEN Padded((e * 125) \div 10, 2)
                ELSE Padded(e * 125, 3)
    IN  Sign(f) \o Digits(Abs(f) \div 8) \o "." \o frac

(***************************************************************************)
(* Timestamps: Time(mjd, format="mjd", scale, precision).utc.isot + "Z".   *)
(* An mjd is a float of eighths of a day.  Scales utc and tai are          *)
(* modelled, for dates from 2017-01-01 on, where TAI - UTC is 37 s.        *)
(***************************************************************************)
\* The instant on the UTC scale: the MJD day number and the second of the
\* day.
UtcInstant(mjd8, scale) ==
    LET sod == (mjd8 % 8) * 10800 - (IF scale = "tai" THEN 37 ELSE 0)
    IN  IF sod < 0
        THEN [day |-> mjd8 \div 8 - 1, sod |-> sod + 86400]
        ELSE [day |-> mjd8 \div 8, sod |-> sod]

\* The calendar date of an MJD day number (proleptic Gregorian calendar).
CivilFromMjd(day) ==
    LET z == day - 40587 + 719468
        era == z \div 146097
        doe == z - era * 146097
        yoe == (doe - doe \div 1460 + doe \div 36524 - doe \div 146096) \div 365
        doy == doe - (365 * yoe + yoe \div 4 - yoe \div 100)
        mp == (5 * doy + 2) \div 153
        d == doy - (153 * mp + 2) \div 5 + 1
        m == IF mp < 10 THEN mp + 3 ELSE mp - 9
        y == yoe + era * 400 + (IF m <= 2 THEN 1 ELSE 0)
    IN  [year |-> y, month |-> m, day |-> d]

\* The isot text of an instant of whole seconds, with `precision`
\* fractional digits (none, and no point, when precision is 0).
IsoT(t, precision) ==
    LET date == CivilFromMjd(t.day)
    IN  Padded(date.year, 4) \o "-" \o Padded(date.month, 2) \o "-"
        \o Padded(date.day, 2) \o "T" \o Padded(t.sod \div 3600, 2) \o ":"
        \o Padded((t.sod % 3600) \div 60, 2) \o ":" \o Padded(t.sod % 60, 2)
        \o (IF precision > 0 THEN "." \o Zeros(precision) ELSE "")

\* ades["obsTime"]: one timestamp str per row, each with "Z" appended.
ObsTimes(obs, scale, precision) ==
    [i \in DOMAIN obs.rows |->
        CellStr(IsoT(UtcInstant(obs.rows[i]["mjd"].f, scale), precision) \o "Z")]

(***************************************************************************)
(* writeToADES: assembling the ades dict.  The dict is a sequence of       *)
(* [name, values] entries in insertion order.  The statements of the       *)
(* source are taken in their order, so that the first one to fail decides  *)
(* the error.                                                              *)
(***************************************************************************)
\* One statement of the source per step:
\*   id    if "<col>" in observations: ades[col] = ...; id_present = True
\*   gate  if not id_present: raise ValueError
\*   time  ades["obsTime"] = ... observations["mjd"] ...
\*   req   ades[col] = observations[col].values
\*   opt   if "<col>" in observations: ades[col] = ...
Step(kind, col) == [kind |-> kind, col |-> col]

MutStepsRemarksFirst ==
    <<Step("opt", "remarks"),
      Step("id", "permID"), Step("id", "provID"), Step("id", "trkSub"),
      Step("gate", ""), Step("time", "mjd"), Step("req", "ra"),
      Step("req", "dec"), Step("opt", "rmsRA"), Step("opt", "rmsDec"),
      Step("req", "mag"), Step("opt", "rmsMag"), Step("req", "band"),
      Step("req", "stn"), Step("req", "mode"), Step("req", "astCat")>>
Steps ==
    <<Step("id", "permID"), Step("id", "provID"), Step("id", "trkSub"),
      Step("gate", ""),
      Step("time", "mjd"),
      Step("req", "ra"), Step("req", "dec"),
      Step("opt", "rmsRA"), Step("opt", "rmsDec"),
      Step("req", "mag"),
      Step("opt", "rmsMag"),
      Step("req", "band"), Step("req", "stn"), Step("req", "mode"),
      Step("req", "astCat"),
      Step("opt", "remarks")>>

Entry(name, values) == [name |-> name, values |-> values]

\* if not id_present: raise
MutGateNeedsPermID(obs, id_present) == ~HasColumn(obs, "permID")
GateFails(obs, id_present) == ~id_present

\* Runs the statements `steps` on the dict `ades`: the dict in the end, or
\* the error of the first statement that raises.  observations["<col>"]
\* raises KeyError for a column the table does not have.
RECURSIVE Assemble(_, _, _, _, _, _)
Assemble(obs, scale, precision, steps, ades, id_present) ==
    IF steps = <<>> THEN Ok(ades) ELSE
    LET st == Head(steps)
        rest == Tail(steps)
        has == HasColumn(obs, st.col)
        copied == Append(ades, Entry(st.col, ColumnValues(obs, st.col)))
    IN  CASE st.kind = "id" ->
               Assemble(obs, scale, precision, rest,
                        IF has THEN copied ELSE ades, id_present \/ has)
          [] st.kind = "gate" ->
               IF GateFails(obs, id_present)
               THEN Raise("ValueError",
                          "At least one of permID, provID, or trkSub should\nbe present in observations.")
               ELSE Assemble(obs, scale, precision, rest, ades, id_present)
          [] st.kind = "time" ->
               IF ~has THEN Raise("KeyError", st.col)
               ELSE Assemble(obs, scale, precision, rest,
                             Append(ades, Entry("obsTime",
                                                ObsTimes(obs, scale, precision))),
                             id_present)
          [] st.kind = "req" ->
               IF ~has THEN Raise("KeyError", st.col)
               ELSE Assemble(obs, scale, precision, rest, copied, id_present)
          [] st.kind = "opt" ->
               Assemble(obs, scale, precision, rest,
                        IF has THEN copied ELSE ades, id_present)

(***************************************************************************)
(* The data frame and its text.                                            *)
(***************************************************************************)
\* "|".join(xs)
RECURSIVE Join(_)
Join(xs) ==
    IF xs = <<>> THEN <<>>
    ELSE IF Len(xs) = 1 THEN <<xs[1]>>
    ELSE <<xs[1], "|">> \o Join(Tail(xs))

\* col_header = "|".join(ades.columns) + "\n"
ColHeader(ades) ==
    Join([i \in DOMAIN ades |-> ades[i].name]) \o <<"\n">>

IsMissing(cell) == cell.t \in {"nan", "None"}

\* The dtype of a column of the frame: float64 when every cell is a float
\* or NaN, object otherwise.
IsFloatColumn(values) == \A i \in DOMAIN values : values[i].t \in {"float", "nan"}

\* ades.replace(np.nan, " ", regex=True): NaN is no pattern, so the missing
\* cells (NaN, None) are replaced by the str " ".  A float column holding a
\* NaN becomes an object column.
MutReplaceKeepsMissing(cell) == cell
ReplaceCell(cell) == IF IsMissing(cell) THEN CellStr(" ") ELSE cell

Replace(ades) ==
    [c \in DOMAIN ades |->
        Entry(ades[c].name,
              [i \in DOMAIN ades[c].values |-> ReplaceCell(ades[c].values[i])])]

\* The text to_csv writes for a cell: float_format applies to the cells of
\* float64 columns only; a float in an object column is written by str();
\* a cell still missing is written as na_rep, the empty str.
Field(cell, floatColumn) ==
    IF cell.t = "float"
    THEN (IF floatColumn THEN FixedFormat(cell.f) ELSE FloatStr(cell.f))
    ELSE IF IsMissing(cell) THEN ""
    ELSE cell.s

\* ades.to_csv(sep="|", header=False, index=False, float_format='%.16f'):
\* one line per row, the fields of the row joined by "|".
ToCsv(ades, nrows) ==
    [i \in 1..nrows |->
        Join([c \in DOMAIN ades |->
                 Field(ades[c].values[i], IsFloatColumn(ades[c].values))])
        \o <<"\n">>]

(***************************************************************************)
(* Files.  A file is absent, or holds a list of lines.                     *)
(***************************************************************************)
NoFile == [exists |-> FALSE, lines |-> <<>>]
FileOf(lines) == [exists |-> TRUE, lines |-> lines]

\* with open(file_out, "w") as f: f.write(...)
MutOpenWriteAppends(fs, path, lines) ==
    [fs EXCEPT ![path] = FileOf(fs[path].lines \o lines)]
OpenWrite(fs, path, lines) ==
    [fs EXCEPT ![path] = FileOf(lines)]

\* to_csv(file_out, mode="a")
OpenAppend(fs, path, lines) ==
    [fs EXCEPT ![path] = FileOf(fs[path].lines \o lines)]

(***************************************************************************)
(* writeToADES.                                                            *)
(***************************************************************************)
\* The arguments writeToADES hands to writeADESHeader: the three optional
\* names are left at their default, None.
HeaderArgs(a) ==
    [observatory_code |-> a.observatory_code,
     submitter |-> a.submitter,
     telescope_design |-> a.telescope_design,
     telescope_aperture |-> a.telescope_aperture,
     telescope_detector |-> a.telescope_detector,
     observers |-> a.observers,
     measurers |-> a.measurers,
     observatory_name |-> PyNone,
     submitter_institution |-> PyNone,
     telescope_name |-> PyNone,
     comment |-> a.comment]

\* The part of writeToADES before the file is opened: the header and the
\* ades dict, or the first error.
Prepare(a) ==
    LET header == writeADESHeader(HeaderArgs(a))
    IN  IF header.status # "ok" THEN header
        ELSE LET ades == Assemble(a.observations, a.mjd_scale,
                                  a.seconds_precision, Steps, <<>>, FALSE)
             IN  IF ades.status # "ok" THEN ades
                 ELSE Ok([header |-> header.value, ades |-> ades.value])

\* What writeToADES returns (None) or raises.
writeToADESResult(a) ==
    IF Prepare(a).status = "ok" THEN Ok(<<>>) ELSE Prepare(a)

\* The files after writeToADES: untouched when it raises before the file is
\* opened; otherwise file_out is opened for writing and gets the header and
\* the column names, then is opened for appending and gets the rows.
MutFilesOpenedBeforeValidation(fs, a) ==
    LET header == writeADESHeader(HeaderArgs(a))
        p == Prepare(a)
    IN  IF header.status # "ok" THEN fs
        ELSE IF p.status # "ok" THEN OpenWrite(fs, a.file_out, header.value)
        ELSE OpenAppend(OpenWrite(fs, a.file_out,
                                  p.value.header \o <<ColHeader(p.value.ades)>>),
                        a.file_out,
                        ToCsv(Replace(p.value.ades), Len(a.observations.rows)))
writeToADESFiles(fs, a) ==
    LET p == Prepare(a)
    IN  IF p.status # "ok" THEN fs
        ELSE LET opened == OpenWrite(fs, a.file_out,
                                     p.value.header \o <<ColHeader(p.value.ades)>>)
             IN  OpenAppend(opened, a.file_out,
                            ToCsv(Replace(p.value.ades), Len(a.observations.rows)))

(***************************************************************************)
(* Inputs of the header builder.                                           *)
(***************************************************************************)
SeqsUpTo(S, n) == UNION {[1..k -> S] : k \in 0..n}

NameEntries == {PyStr("J. Smith"), PyStr("A. Jones"), PyInt("7")}

\* What a caller may pass as observers or measurers: a list (of strs, or with
\* an entry that is no str), a single str, a tuple of strs.
NamesArgs ==
    {PyList(xs) : xs \in SeqsUpTo(NameEntries, MaxNames)}
    \cup {PyStr("J. Smith"), PyTuple(<<PyStr("J. Smith")>>)}

Optional(S) == {PyNone} \cup {PyStr(s) : s \in S}

HeaderInputs ==
    [observatory_code : {PyStr("I41")},
     submitter : {PyStr("D. Vader")},
     telescope_design : {PyStr("Reflector")},
     telescope_aperture : {PyStr("8.4"), PyStr("1.8")},
     telescope_detector : {PyStr("CCD"), PyStr("CMOS")},
     observers : NamesArgs,
     measurers : NamesArgs,
     observatory_name : Optional({"Palomar"}),
     submitter_institution : Optional({"Empire"}),
     telescope_name : Optional({"ZTF"}),
     comment : Optional({"first light"})]

\* The text of a str: its tokens concatenated.
RECURSIVE Text(_)
Text(toks) == IF toks = <<>> THEN "" ELSE Head(toks) \o Text(Tail(toks))

(***************************************************************************)
(* Inputs of the exporter.                                                 *)
(***************************************************************************)
ColumnOrder ==
    <<"permID", "provID", "trkSub", "mjd", "ra", "dec", "rmsRA", "rmsDec",
      "mag", "rmsMag", "band", "stn", "mode", "astCat", "remarks", "obs_id">>

IdColumns == {"permID", "provID", "trkSub"}
OptionalColumns == {"rmsRA", "rmsDec", "rmsMag", "remarks"}
RequiredColumns == {"mjd", "ra", "dec", "mag", "band", "stn", "mode", "astCat"}
AllColumns == IdColumns \cup OptionalColumns \cup RequiredColumns \cup {"obs_id"}

Reverse(xs) == [i \in DOMAIN xs |-> xs[Len(xs) + 1 - i]]

\* Two rows of values; mjd 59000.5 and 58849.0, floats in eighths.
Template(k) ==
    IF k = 1
    THEN [permID |-> CellStr("1234"), provID |-> CellStr("2020 AB1"),
          trkSub |-> CellStr("A1B2C3"), mjd |-> CellFloat(472004),
          ra |-> CellFloat(80), dec |-> CellFloat(-40),
          rmsRA |-> CellFloat(1), rmsDec |-> CellFloat(2),
          mag |-> CellFloat(161), rmsMag |-> CellFloat(4),
          band |-> CellStr("g"), stn |-> CellStr("F51"),
          mode |-> CellStr("CCD"), astCat |-> CellStr("Gaia2"),
          remarks |-> CellStr("first"), obs_id |-> CellStr("o1")]
    ELSE [permID |-> CellStr("5678"), provID |-> CellStr("2019 XY2"),
          trkSub |-> CellStr("Z9Y8X7"), mjd |-> CellFloat(470792),
          ra |-> CellFloat(2879), dec |-> CellFloat(0),
          rmsRA |-> CellFloat(6), rmsDec |-> CellFloat(3),
          mag |-> CellFloat(142), rmsMag |-> CellFloat(-1),
          band |-> CellStr("r"), stn |-> CellStr("I41"),
          mode |-> CellStr("CMO"), astCat |-> CellStr("UCAC4"),
          remarks |-> CellStr("second"), obs_id |-> CellStr("o2")]

\* The row with the cells of the columns `missing` undefined: None in the
\* remarks column, NaN elsewhere.
Blank(row, missing) ==
    [c \in DOMAIN row |->
        IF c \in missing THEN (IF c = "remarks" THEN CellNone ELSE CellNaN)
        ELSE row[c]]

MissingChoices == {{}, {"rmsMag"}, {"remarks"}, {"permID", "mag"}}

RowChoices == {Blank(Template(k), m) : k \in 1..2, m \in MissingChoices}

\* The table with the columns `cols`, in the order of `order`.
Table(cols, order, rows) ==
    [columns |-> SelectSeq(order, LAMBDA c : c \in cols),
     rows |-> [i \in DOMAIN rows |-> [c \in cols |-> rows[i][c]]]]

ExportArgs(obs, path, scale, precision, observers, measurers, comment) ==
    [observations |-> obs, file_out |-> path, mjd_scale |-> scale,
     seconds_precision |-> precision,
     observatory_code |-> PyStr("I41"), submitter |-> PyStr("D. Vader"),
     telescope_design |-> PyStr("Reflector"),
     telescope_aperture |-> PyStr("8.4"), telescope_detector |-> PyStr("CCD"),
     observers |-> observers, measurers |-> measurers, comment |-> comment]

Paths == {"out.psv", "other.psv"}

OneObserver == PyList(<<PyStr("J. Smith")>>)
OneMeasurer == PyList(<<PyStr("A. Jones")>>)

\* Tables of one row over every choice of identification and optional
\* columns, in two column orders, with and without an extra column.
ColumnInputs ==
    {ExportArgs(Table(ids \cup opts \cup RequiredColumns \cup extra, order,
                      <<Template(1)>>),
                "out.psv", "utc", 9, OneObserver, OneMeasurer, PyNone) :
        ids \in SUBSET IdColumns, opts \in SUBSET OptionalColumns,
        order \in {ColumnOrder, Reverse(ColumnOrder)},
        extra \in {{}, {"obs_id"}}}

\* Tables of up to MaxRows rows with undefined cells, with every column or
\* with few, in the modelled time scales and precisions.
RowInputs ==
    {ExportArgs(Table(cols, ColumnOrder, rows), "out.psv", tp[1], tp[2],
                OneObserver, OneMeasurer, PyStr("first light")) :
        cols \in {AllColumns \ {"obs_id"},
                  RequiredColumns \cup {"permID", "rmsMag"}},
        rows \in SeqsUpTo(RowChoices, MaxRows),
        tp \in {<<"utc", 9>>, <<"tai", 3>>, <<"utc", 0>>}}

\* Calls that fail validation, and their valid neighbours: a required
\* column left out, no identification column, observers or measurers that
\* are no list.
FailureInputs ==
    {ExportArgs(Table((ids \cup RequiredColumns \cup {"remarks"}) \ gone,
                      ColumnOrder, <<Template(1), Template(2)>>),
                path, "utc", 9, who[1], who[2], PyNone) :
        ids \in {{}, {"trkSub"}},
        gone \in {{}} \cup {{c} : c \in RequiredColumns},
        path \in Paths,
        who \in {<<OneObserver, OneMeasurer>>,
                 <<PyStr("J. Smith"), OneMeasurer>>,
                 <<OneObserver, PyTuple(<<PyStr("A. Jones")>>)>>}}

TableInputs == ColumnInputs \cup RowInputs \cup FailureInputs

\* A few calls of each kind, for sequences of exports.
SessionInputs ==
    {ExportArgs(Table(cols, ColumnOrder, rows), path, "utc", 9,
                who[1], who[2], PyNone) :
        cols \in {RequiredColumns \cup {"trkSub"},
                  RequiredColumns \cup {"permID", "rmsMag"},
                  RequiredColumns,
                  (RequiredColumns \ {"astCat"}) \cup {"trkSub"}},
        rows \in {<<>>, <<Template(1)>>,
                  <<Template(2), Blank(Template(1), {"rmsMag"})>>},
        path \in Paths,
        who \in {<<OneObserver, OneMeasurer>>,
                 <<PyStr("J. Smith"), OneMeasurer>>,
                 <<OneObserver, PyTuple(<<PyStr("A. Jones")>>)>>}}

StaleFile == FileOf(<<<<"stale", "\n">>, <<"lines", "\n">>>>)

InitialFiles == [Paths -> {NoFile, StaleFile}]

DefaultHeaderArgs ==
    [HeaderArgs(ExportArgs(<<>>, "", "", 0, OneObserver, OneMeasurer, PyNone))
        EXCEPT !.observatory_name = PyNone]

DefaultExportArgs ==
    ExportArgs(Table(RequiredColumns \cup {"trkSub"}, ColumnOrder, <<>>),
               "out.psv", "utc", 9, OneObserver, OneMeasurer, PyNone)

(***************************************************************************)
(* Actions.  A call is pending while its result is NotCalled.              *)
(***************************************************************************)
\* A call of writeADESHeader with the arguments hargs.
HeaderCall ==
    /\ hret = NotCalled
    /\ hret' = writeADESHeader(hargs)
    /\ UNCHANGED <<hargs, targs, tret, files>>

\* A call of writeToADES with the arguments targs.
ExportCall ==
    /\ tret = NotCalled
    /\ tret' = writeToADESResult(targs)
    /\ files' = writeToADESFiles(files, targs)
    /\ UNCHANGED <<hargs, hret, targs>>

\* The caller, after a call returned or raised, sets up the next one.
NextExport ==
    /\ tret # NotCalled
    /\ targs' \in SessionInputs
    /\ tret' = NotCalled
    /\ UNCHANGED <<hargs, hret, files>>

(***************************************************************************)
(* HeaderSpec: the header builder as a pure function; the arguments are    *)
(* drawn in the initial state and one call applies writeADESHeader.        *)
(***************************************************************************)
HInit ==
    /\ hargs \in HeaderInputs
    /\ hret = NotCalled
    /\ targs = DefaultExportArgs
    /\ tret = NotCalled
    /\ files = [p \in Paths |-> NoFile]

HNext == HeaderCall

HeaderSpec == HInit /\ [][HNext]_vars

(***************************************************************************)
(* TableSpec: one export of a table drawn in the initial state, onto files *)
(* that are absent or hold stale content.                                  *)
(***************************************************************************)
TInit ==
    /\ hargs = DefaultHeaderArgs
    /\ hret = NotCalled
    /\ targs \in TableInputs
    /\ tret = NotCalled
    /\ files \in InitialFiles

TNext == ExportCall

TableSpec == TInit /\ [][TNext]_vars

(***************************************************************************)
(* Spec: sequences of exports, each to one of two paths.                   *)
(***************************************************************************)
Init ==
    /\ hargs = DefaultHeaderArgs
    /\ hret = NotCalled
    /\ targs \in SessionInputs
    /\ tret = NotCalled
    /\ files \in InitialFiles

Next == ExportCall \/ NextExport

Spec == Init /\ [][Next]_vars

(***************************************************************************)
(* Reading a header back: its section markers and the lines of a section.  *)
(***************************************************************************)
MarkerTexts ==
    {"# observatory\n", "# submitter\n", "# telescope\n", "# observers\n",
     "# measurers\n", "# comment\n"}

IsMarker(line) == Text(line) \in MarkerTexts

\* The texts of the section markers of h, in the order they occur.
RECURSIVE Markers(_)
Markers(h) ==
    IF h = <<>> THEN <<>>
    ELSE (IF IsMarker(Head(h)) THEN <<Text(Head(h))>> ELSE <<>>) \o Markers(Tail(h))

\* The lines of h before its first marker.
RECURSIVE UpToMarker(_)
UpToMarker(h) ==
    IF h = <<>> \/ IsMarker(Head(h)) THEN <<>>
    ELSE <<Head(h)>> \o UpToMarker(Tail(h))

\* The lines between the marker m and the next marker (or the end).
Section(h, m) ==
    IF \E i \in DOMAIN h : Text(h[i]) = m
    THEN LET i == CHOOSE j \in DOMAIN h : Text(h[j]) = m
         IN  UpToMarker(SubSeq(h, i + 1, Len(h)))
    ELSE <<>>

\* The lines of a section whose key token is k.
KeyLines(h, m, k) == SelectSeq(Section(h, m), LAMBDA l : Head(l) = k)

HeaderOk == hret.status = "ok"

(***************************************************************************)
(* Claims about the header builder (checked under HeaderSpec).             *)
(***************************************************************************)
Line(k, v) == <<k, v, "\n">>

\* C1: whenever the header builder returns, the telescope section holds
\* exactly one aperture line and it carries the telescope_aperture argument.
C1_ApertureFromArgument ==
    HeaderOk =>
        KeyLines(hret.value, "# telescope\n", "! aperture ")
            = <<Line("! aperture ", Format(hargs.telescope_aperture))>>

\* C2: whenever the header builder returns, the telescope section holds
\* exactly one detector line and it carries the telescope_detector argument.
C2_DetectorFromArgument ==
    HeaderOk =>
        KeyLines(hret.value, "# telescope\n", "! detector ")
            = <<Line("! detector ", Format(hargs.telescope_detector))>>

\* C3: a returned header begins with the version line, its section markers
\* are observatory, submitter, telescope, observers, measurers once each in
\* that order, followed by comment iff a comment was supplied, and every
\* line ends with a newline.
C3_HeaderStructure ==
    HeaderOk =>
        /\ Text(hret.value[1]) = "# version=2017\n"
        /\ Markers(hret.value)
             = <<"# observatory\n", "# submitter\n", "# telescope\n",
                 "# observers\n", "# measurers\n">>
               \o (IF hargs.comment # PyNone THEN <<"# comment\n">> ELSE <<>>)
        /\ \A i \in DOMAIN hret.value :
               hret.value[i][Len(hret.value[i])] = "\n"

C3_Witness ==
    /\ HeaderOk
    /\ hargs.comment # PyNone
    /\ Len(hargs.observers.items) = 2
    /\ Text(hret.value[Len(hret.value)]) = "! line first light\n"

\* The key lines of a section are exactly the given ones, in any position.
OneOrNone(h, m, k, arg) ==
    KeyLines(h, m, k) = (IF arg # PyNone THEN <<Line(k, arg.s)>> ELSE <<>>)

\* C4: in a returned header each optional key line (observatory name,
\* submitter institution, telescope name) is in its section iff its argument
\* is not None, and the mandatory key lines (mpcCode, submitter name,
\* aperture, design, detector) are in every header.
C4_OptionalLinesIffSupplied ==
    HeaderOk =>
        LET h == hret.value
        IN  /\ OneOrNone(h, "# observatory\n", "! name ", hargs.observatory_name)
            /\ OneOrNone(h, "# submitter\n", "! institution ",
                         hargs.submitter_institution)
            /\ Len(KeyLines(h, "# telescope\n", "! name "))
                 = (IF hargs.telescope_name # PyNone THEN 1 ELSE 0)
            /\ Len(KeyLines(h, "# observatory\n", "! mpcCode ")) = 1
            /\ Len(KeyLines(h, "# submitter\n", "! name ")) = 1
            /\ Len(KeyLines(h, "# telescope\n", "! aperture ")) = 1
            /\ Len(KeyLines(h, "# telescope\n", "! design ")) = 1
            /\ Len(KeyLines(h, "# telescope\n", "! detector ")) = 1

C4_Witness ==
    /\ HeaderOk
    /\ hargs.observatory_name # PyNone
    /\ hargs.submitter_institution = PyNone
    /\ hargs.telescope_name # PyNone
    /\ Len(Section(hret.value, "# observatory\n")) = 2
    /\ Len(Section(hret.value, "# submitter\n")) = 1

\* A list-like ordered sequence of strings: a list or a tuple whose entries
\* are all strs.
ListLikeOfStr(x) ==
    /\ x.t \in {"list", "tuple"}
    /\ \A i \in DOMAIN x.items : x.items[i].t = "str"

HeaderCalled == hret.status # "none"

HeaderFailed ==
    hret.status = "ValueError" /\ hret.value = <<>>

\* The name lines the entries of a list give, by position.
ExpectedNames(x) ==
    [i \in 1..Len(x.items) |-> Line("! name ", Format(x.items[i]))]

\* C5 as stated: the call fails iff observers or measurers is not a
\* list-like ordered sequence of strings.
C5_FailsIffNotListLikeOfStr ==
    HeaderCalled =>
        (HeaderFailed <=>
            ~(ListLikeOfStr(hargs.observers) /\ ListLikeOfStr(hargs.measurers)))

\* C5 as amended: the call fails, returning no lines, iff observers or
\* measurers is not of type list (a single str and a tuple of strs both
\* fail, a list fails for no entries); for two lists the observers and the
\* measurers sections hold one name line per entry, in list order.
C5_FailsIffNotList ==
    HeaderCalled =>
        /\ HeaderFailed <=>
              (hargs.observers.t # "list" \/ hargs.measurers.t # "list")
        /\ HeaderOk =>
              /\ Section(hret.value, "# observers\n")
                     = ExpectedNames(hargs.observers)
              /\ Section(hret.value, "# measurers\n")
                     = ExpectedNames(hargs.measurers)

C5_Witness ==
    /\ HeaderFailed
    /\ hargs.observers.t = "list"
    /\ hargs.measurers = PyStr("J. Smith")

(***************************************************************************)
(* Reading an exported file back.                                          *)
(***************************************************************************)
Exported == tret.status = "ok"

ValidMetadata == targs.observers.t = "list" /\ targs.measurers.t = "list"

InputColumns == {targs.observations.columns[i] : i \in DOMAIN targs.observations.columns}

InputRows == targs.observations.rows

OutFile == files[targs.file_out]

\* The header the header builder returns for the metadata of the call.
HeaderOfCall == writeADESHeader(HeaderArgs(targs)).value

\* The lines of the output file after the header.
Body == SubSeq(OutFile.lines, Len(HeaderOfCall) + 1, Len(OutFile.lines))

\* A line is fields separated by "|" and ended by a newline.
WellFormed(line) ==
    /\ Len(line) % 2 = 0
    /\ Len(line) >= 2
    /\ line[Len(line)] = "\n"
    /\ \A k \in 1..(Len(line) \div 2) :
          /\ line[2 * k - 1] \notin {"|", "\n"}
          /\ k < Len(line) \div 2 => line[2 * k] = "|"

NumFields(line) == Cardinality({k \in DOMAIN line : line[k] = "|"}) + 1

Fields(line) == [k \in 1..NumFields(line) |-> line[2 * k - 1]]

\* The column names of the ADES table, in their fixed order.
OutputOrder ==
    <<"permID", "provID", "trkSub", "obsTime", "ra", "dec", "rmsRA", "rmsDec",
      "mag", "rmsMag", "band", "stn", "mode", "astCat", "remarks">>

AlwaysWritten == {"obsTime", "ra", "dec", "mag", "band", "stn", "mode", "astCat"}

GateMessage ==
    "At least one of permID, provID, or trkSub should\nbe present in observations."

(***************************************************************************)
(* Claims about the exporter.                                              *)
(***************************************************************************)
\* C6: with valid metadata, a call fails with the missing-identification
\* error iff the table has none of the columns permID, provID, trkSub;
\* the cells of those columns play no part.
C6_GateIffNoIdColumn ==
    (tret.status # "none" /\ ValidMetadata) =>
        ((tret.status = "ValueError" /\ tret.msg = GateMessage)
            <=> InputColumns \cap IdColumns = {})

C6_Witness ==
    /\ tret.status = "ValueError"
    /\ tret.msg = GateMessage
    /\ "remarks" \in InputColumns
    /\ Len(InputRows) = 2

\* C7: after a successful export the column-name line lists, in the fixed
\* order, the identification and optional columns the table has and the
\* columns that are always written, whatever the column order of the table.
C7_ColumnLineFixedOrder ==
    Exported =>
        /\ Len(Body) >= 1
        /\ WellFormed(Body[1])
        /\ Fields(Body[1])
             = SelectSeq(OutputOrder,
                         LAMBDA c : c \in AlwaysWritten \/ c \in InputColumns)

C7_Witness ==
    /\ Exported
    /\ targs.observations.columns[1] = "obs_id"
    /\ InputColumns \cap (IdColumns \cup OptionalColumns)
         = {"provID", "rmsDec", "remarks"}
    /\ Text(Body[1])
         = "provID|obsTime|ra|dec|rmsDec|mag|band|stn|mode|astCat|remarks\n"

\* The position of the column c in the column-name line.
ColumnIndex(c) == CHOOSE k \in 1..NumFields(Body[1]) : Fields(Body[1])[k] = c

\* C8: after a successful export of N rows the output file is exactly the
\* header of the header builder, one column-name line and N data lines in
\* the order of the rows; nothing of what the file held before is left.
C8_FileIsHeaderColumnsRows ==
    Exported =>
        /\ OutFile.exists
        /\ Len(OutFile.lines) = Len(HeaderOfCall) + 1 + Len(InputRows)
        /\ SubSeq(OutFile.lines, 1, Len(HeaderOfCall)) = HeaderOfCall
        /\ ~IsMarker(Body[1]) /\ Head(Body[1]) \in IdColumns
        /\ \A i \in DOMAIN InputRows :
              /\ WellFormed(Body[1 + i])
              /\ Fields(Body[1 + i])[ColumnIndex("band")] = InputRows[i]["band"].s
              /\ Fields(Body[1 + i])[ColumnIndex("stn")] = InputRows[i]["stn"].s

C8_Witness ==
    /\ Exported
    /\ Len(InputRows) = 2
    /\ Len(OutFile.lines) = Len(HeaderOfCall) + 3
    /\ \E p \in Paths : p # targs.file_out /\ files[p] \notin {NoFile, StaleFile}

\* C9: in every data line of a successful export a cell that is undefined
\* in the table is written as one space, every data line has as many
\* fields as the column-name line, and no line ends in a pipe.
C9_MissingCellIsOneSpace ==
    Exported =>
        \A i \in DOMAIN InputRows :
            LET line == Body[1 + i]
            IN  /\ WellFormed(line)
                /\ NumFields(line) = NumFields(Body[1])
                /\ line[Len(line) - 1] # "|"
                /\ \A k \in 1..NumFields(Body[1]) :
                      LET c == Fields(Body[1])[k]
                      IN  (c # "obsTime" /\ IsMissing(InputRows[i][c]))
                              => Fields(line)[k] = " "

C9_Witness ==
    /\ Exported
    /\ Len(InputRows) = 2
    /\ "rmsMag" \in InputColumns
    /\ InputRows[1]["rmsMag"] = CellNaN
    /\ InputRows[2]["rmsMag"] # CellNaN
    /\ Fields(Body[2])[ColumnIndex("rmsMag")] = " "
    /\ Fields(Body[3])[ColumnIndex("rmsMag")] # " "

\* C10: a call that fails validation (observers or measurers no list, no
\* identification column, a required column absent) leaves every file as
\* it was: no file is truncated, none is created.
C10_FailureLeavesFiles ==
    [][(tret = NotCalled /\ tret'.status \in {"ValueError", "KeyError"})
          => files' = files]_vars

C10_Witness ==
    /\ tret.status = "KeyError"
    /\ OutFile \notin {NoFile, StaleFile}

====
